---------------------------- MODULE Spec2Model ----------------------------
(***************************************************************************)
(* Model of MDitD's upload pipeline: main.py (upload_files,                *)
(* process_single_file_async), utils/file_handler.py (FileHandler) and     *)
(* utils/converter.py (DocumentConverter).                                 *)
(*                                                                         *)
(* File names are sequences of one-character strings.  A control           *)
(* character that TLA+ cannot write is a token: "NUL" is \x00 and "DEL" is *)
(* \x7f.  Paths inside a directory are (directory, leaf name) pairs.       *)
(***************************************************************************)
EXTENDS Integers, Sequences, FiniteSets, TLC

(***************************************************************************)
(* Strings                                                                 *)
(***************************************************************************)
Min(a, b) == IF a <= b THEN a ELSE b

\* s[a:b] of Python, 1-based and inclusive here; empty when a > b
Slice(s, a, b) == IF a > b THEN <<>> ELSE SubSeq(s, a, b)

\* Python's "pattern in s" for a pattern given as a sequence of characters
Contains(s, pat) ==
    \E i \in 1..(Len(s) - Len(pat) + 1) : SubSeq(s, i, i + Len(pat) - 1) = pat

\* the largest index of s whose character satisfies Test, 0 when there is none
LastIndex(s, Test(_)) ==
    LET I == {i \in 1..Len(s) : Test(s[i])}
    IN  IF I = {} THEN 0 ELSE CHOOSE i \in I : \A j \in I : j <= i

\* str.upper() on ASCII
UpperChar(c) ==
    CASE c = "a" -> "A" [] c = "b" -> "B" [] c = "c" -> "C" [] c = "d" -> "D"
      [] c = "e" -> "E" [] c = "f" -> "F" [] c = "g" -> "G" [] c = "h" -> "H"
      [] c = "i" -> "I" [] c = "j" -> "J" [] c = "k" -> "K" [] c = "l" -> "L"
      [] c = "m" -> "M" [] c = "n" -> "N" [] c = "o" -> "O" [] c = "p" -> "P"
      [] c = "q" -> "Q" [] c = "r" -> "R" [] c = "s" -> "S" [] c = "t" -> "T"
      [] c = "u" -> "U" [] c = "v" -> "V" [] c = "w" -> "W" [] c = "x" -> "X"
      [] c = "y" -> "Y" [] c = "z" -> "Z"
      [] OTHER -> c

Upper(s) == [i \in 1..Len(s) |-> UpperChar(s[i])]

\* str.lower() on ASCII
LowerChar(c) ==
    CASE c = "A" -> "a" [] c = "B" -> "b" [] c = "C" -> "c" [] c = "D" -> "d"
      [] c = "E" -> "e" [] c = "F" -> "f" [] c = "G" -> "g" [] c = "H" -> "h"
      [] c = "I" -> "i" [] c = "J" -> "j" [] c = "K" -> "k" [] c = "L" -> "l"
      [] c = "M" -> "m" [] c = "N" -> "n" [] c = "O" -> "o" [] c = "P" -> "p"
      [] c = "Q" -> "q" [] c = "R" -> "r" [] c = "S" -> "s" [] c = "T" -> "t"
      [] c = "U" -> "u" [] c = "V" -> "v" [] c = "W" -> "w" [] c = "X" -> "x"
      [] c = "Y" -> "y" [] c = "Z" -> "z"
      [] OTHER -> c

Lower(s) == [i \in 1..Len(s) |-> LowerChar(s[i])]

(***************************************************************************)
(* os.path and pathlib, for the two path flavours the program runs on      *)
(***************************************************************************)
OsNames == {"posix", "nt"}

IsSep(os, c) == c = "/" \/ (os = "nt" /\ c = "\\")

\* ntpath.splitdrive: a leading "X:" is a drive; posixpath has no drives
DriveLen(os, s) == IF os = "nt" /\ Len(s) >= 2 /\ s[2] = ":" THEN 2 ELSE 0

\* os.path.basename: what follows the last separator (after the drive)
Basename(os, s) ==
    LET rest == Slice(s, DriveLen(os, s) + 1, Len(s))
        i    == LastIndex(rest, LAMBDA c : IsSep(os, c))
    IN  Slice(rest, i + 1, Len(rest))

\* PurePath(s).name: the last component, trailing separators and "." dropped
RECURSIVE PathName(_, _)
PathName(os, s) ==
    LET rest == Slice(s, DriveLen(os, s) + 1, Len(s))
        i    == LastIndex(rest, LAMBDA c : IsSep(os, c))
        leaf == Slice(rest, i + 1, Len(rest))
    IN  IF rest = <<>> THEN <<>>
        ELSE IF leaf = <<>> \/ leaf = <<".">>
             THEN PathName(os, Slice(s, 1, DriveLen(os, s) + i - 1))
             ELSE leaf

\* the index of the dot that starts PurePath.suffix in a name, 0 when none
SuffixDot(name) ==
    LET i == LastIndex(name, LAMBDA c : c = ".")
    IN  IF 1 < i /\ i < Len(name) THEN i ELSE 0

PathSuffix(os, s) ==
    LET name == PathName(os, s)
        i    == SuffixDot(name)
    IN  IF i = 0 THEN <<>> ELSE Slice(name, i, Len(name))

PathStem(os, s) ==
    LET name == PathName(os, s)
        i    == SuffixDot(name)
    IN  IF i = 0 THEN name ELSE Slice(name, 1, i - 1)

(***************************************************************************)
(* FileHandler._sanitize_filename                                          *)
(***************************************************************************)
\* re.sub(r'[<>:"/\\|?*]', '_', filename)
DangerousChars == {"<", ">", ":", "\"", "/", "\\", "|", "?", "*"}

\* ReplaceDangerous with a character class that lacks the backslash
ReplaceDangerous_NoBackslash(s) ==
    [i \in 1..Len(s) |-> IF s[i] \in DangerousChars \ {"\\"} THEN "_" ELSE s[i]]

ReplaceDangerous(s) ==
    [i \in 1..Len(s) |-> IF s[i] \in DangerousChars THEN "_" ELSE s[i]]

\* re.sub(r'[\x00-\x1f\x7f-\x9f]', '', filename)
ControlChars == {"NUL", "\t", "\n", "\r", "DEL"}

RemoveControl(s) == SelectSeq(s, LAMBDA c : c \notin ControlChars)

\* filename.strip('. ')
RECURSIVE LStrip(_)
LStrip(s) ==
    IF s # <<>> /\ s[1] \in {".", " "} THEN LStrip(Tail(s)) ELSE s

RECURSIVE RStrip(_)
RStrip(s) ==
    IF s # <<>> /\ s[Len(s)] \in {".", " "}
    THEN RStrip(Slice(s, 1, Len(s) - 1)) ELSE s

Strip(s) == RStrip(LStrip(s))

reserved_names ==
    {<<"C","O","N">>, <<"P","R","N">>, <<"A","U","X">>, <<"N","U","L">>}
    \cup {<<"C","O","M",d>> : d \in {"1","2","3","4","5","6","7","8","9"}}
    \cup {<<"L","P","T",d>> : d \in {"1","2","3","4","5","6","7","8","9"}}

\* len(filename) > 255 and stem[:200]
SanitizeMaxLen == 255
SanitizeStemKeep == 200

unnamed_file == <<"u","n","n","a","m","e","d","_","f","i","l","e">>

\* SanitizeFilename that keeps the directories and the separators of the name
SanitizeFilename_KeepPath(os, filename) ==
    LET f5 == Strip(RemoveControl(filename))
    IN  IF f5 = <<>> THEN unnamed_file ELSE f5

\* SanitizeFilename with the reserved names looked up before the trimming
SanitizeFilename_ReservedFirst(os, filename) ==
    LET f1 == Basename(os, filename)
        f2 == ReplaceDangerous(f1)
        f3 == RemoveControl(f2)
        f4 == IF Upper(PathStem(os, f3)) \in reserved_names
              THEN <<"f","i","l","e","_">> \o f3 ELSE f3
        f5 == Strip(f4)
        f6 == IF Len(f5) > SanitizeMaxLen
              THEN Slice(PathStem(os, f5), 1,
                         Min(SanitizeStemKeep, Len(PathStem(os, f5))))
                   \o PathSuffix(os, f5)
              ELSE f5
    IN  IF f6 = <<>> THEN unnamed_file ELSE f6

SanitizeFilename(os, filename) ==
    LET f1 == Basename(os, filename)
        f2 == ReplaceDangerous(f1)
        f3 == RemoveControl(f2)
        f4 == Strip(f3)
        f5 == IF Upper(PathStem(os, f4)) \in reserved_names
              THEN <<"f","i","l","e","_">> \o f4 ELSE f4
        f6 == IF Len(f5) > SanitizeMaxLen
              THEN Slice(PathStem(os, f5), 1,
                         Min(SanitizeStemKeep, Len(PathStem(os, f5))))
                   \o PathSuffix(os, f5)
              ELSE f5
    IN  IF f6 = <<>> THEN unnamed_file ELSE f6

(***************************************************************************)
(* Configuration: settings.py.  Every setting can be overridden from the   *)
(* environment (prefix MDITD_).  max_concurrent_files is a bound of the    *)
(* model: it runs at 2 instead of the default 4, so that a batch of        *)
(* MaxBatch files has a file that waits for a slot.                        *)
(***************************************************************************)
max_file_size == 100 * 1024 * 1024
max_total_size == 500 * 1024 * 1024
max_files_count == 20
min_file_size == 1
max_concurrent_files == 2
max_filename_length == 255
max_output_dir_length == 100

forbidden_filename_patterns ==
    << <<"<">>, <<">">>, <<":">>, <<"\"">>, <<"|">>, <<"?">>, <<"*">>,
       <<"NUL">>, <<"\n">>, <<"\r">> >>

forbidden_output_dir_patterns ==
    << <<".", ".">>, <<"\\">>, <<"/">>, <<":">>, <<"*">>, <<"?">>,
       <<"\"">>, <<"<">>, <<">">>, <<"|">> >>

\* DocumentConverter.supported_extensions
supported_extensions ==
    { <<".","p","d","f">>, <<".","d","o","c","x">>, <<".","p","p","t","x">>,
      <<".","x","l","s","x">>, <<".","j","p","g">>, <<".","j","p","e","g">>,
      <<".","p","n","g">>, <<".","g","i","f">>, <<".","b","m","p">>,
      <<".","t","i","f","f">>, <<".","m","p","3">>, <<".","w","a","v">>,
      <<".","m","4","a">>, <<".","f","l","a","c">>, <<".","h","t","m","l">>,
      <<".","h","t","m">>, <<".","c","s","v">>, <<".","j","s","o","n">>,
      <<".","x","m","l">>, <<".","z","i","p">>, <<".","t","x","t">>,
      <<".","m","d">> }

\* file.size is None
NoSize == -1

(***************************************************************************)
(* DocumentConverter.is_supported_format and validate_mime_type            *)
(***************************************************************************)
is_supported_format(os, file_path) ==
    Lower(PathSuffix(os, file_path)) \in supported_extensions

\* mimetypes.guess_type on the extensions of the uploads of the model: the
\* table of the standard library knows ".wav" as audio/x-wav, which is not in
\* allowed_mime_types (audio/wav is); ".txt" is text/plain, which is; ".md"
\* and unknown extensions have no type.
GuessType(os, filename) ==
    LET ext == Lower(PathSuffix(os, filename))
    IN  CASE ext = <<".","t","x","t">> -> "text/plain"
          [] ext = <<".","w","a","v">> -> "audio/x-wav"
          [] ext = <<".","p","d","f">> -> "application/pdf"
          [] OTHER -> "None"

allowed_mime_types == {"text/plain", "application/pdf", "audio/wav", "text/markdown"}

validate_mime_type(os, filename) ==
    LET detected_type == GuessType(os, filename)
    IN  IF detected_type = "None" THEN is_supported_format(os, filename)
        ELSE detected_type \in allowed_mime_types

(***************************************************************************)
(* Directories.  A directory is the sequence of its components below the   *)
(* working directory; Outside stands for every directory that is not the   *)
(* working directory or below it.                                          *)
(***************************************************************************)
UploadsDir == << <<"u","p","l","o","a","d","s">> >>
DefaultOutputDir == << <<"v","y","s","t","u","p">> >>
Outside == << <<"/">> >>

\* the components of a path, separators removed
RECURSIVE SplitPath(_, _)
SplitPath(os, s) ==
    LET i == LastIndex(s, LAMBDA c : IsSep(os, c))
    IN  IF s = <<>> THEN <<>>
        ELSE IF i = 0 THEN <<s>>
        ELSE SplitPath(os, Slice(s, 1, i - 1)) \o
             (IF i = Len(s) THEN <<>> ELSE <<Slice(s, i + 1, Len(s))>>)

\* ".." climbs, "." and "" stay; climbing above the working directory leaves it
RECURSIVE Normalize(_, _)
Normalize(stack, comps) ==
    IF stack = Outside \/ comps = <<>> THEN stack
    ELSE IF Head(comps) \in {<<>>, <<".">>} THEN Normalize(stack, Tail(comps))
    ELSE IF Head(comps) = <<".", ".">>
         THEN IF stack = <<>> THEN Outside
              ELSE Normalize(Slice(stack, 1, Len(stack) - 1), Tail(comps))
    ELSE Normalize(Append(stack, Head(comps)), Tail(comps))

\* the drive of the working directory on a host that has drives
CwdDrive == "C"

\* a path that does not start from the working directory: it has a root,
\* or it names another drive
IsAbsolute(os, s) ==
    LET rest == Slice(s, DriveLen(os, s) + 1, Len(s))
    IN  \/ rest # <<>> /\ IsSep(os, rest[1])
        \/ DriveLen(os, s) > 0 /\ UpperChar(s[1]) # CwdDrive

\* Path(output_dir).resolve(), no symbolic links; a path with the drive of
\* the working directory and no root starts from the working directory
ResolveDir(os, output_dir) ==
    IF IsAbsolute(os, output_dir) THEN Outside
    ELSE Normalize(<<>>, SplitPath(os, Slice(output_dir,
                                             DriveLen(os, output_dir) + 1,
                                             Len(output_dir))))

\* every ancestor of a directory below the working directory, itself included
Ancestors(dir) == {Slice(dir, 1, k) : k \in 1..Len(dir)}

(***************************************************************************)
(* Collision-safe naming: f"{stem}_{counter}{ext}"                         *)
(***************************************************************************)
DigitChar(d) ==
    CASE d = 0 -> "0" [] d = 1 -> "1" [] d = 2 -> "2" [] d = 3 -> "3"
      [] d = 4 -> "4" [] d = 5 -> "5" [] d = 6 -> "6" [] d = 7 -> "7"
      [] d = 8 -> "8" [] d = 9 -> "9"

RECURSIVE Decimal(_)
Decimal(n) ==
    IF n < 10 THEN <<DigitChar(n)>>
    ELSE Decimal(n \div 10) \o <<DigitChar(n % 10)>>

NumberedName(stem, counter, ext) == stem \o <<"_">> \o Decimal(counter) \o ext

\* FreeFrom with "if" in place of "while": one numbered name is tried
FreeFrom_Once(taken, name, stem, ext, counter) ==
    IF name \in taken THEN NumberedName(stem, counter, ext) ELSE name

\* the loop "counter = 1; while path.exists(): path = numbered; counter += 1"
\* run to its end against the names taken in the directory
RECURSIVE FreeFrom(_, _, _, _, _)
FreeFrom(taken, name, stem, ext, counter) ==
    IF name \in taken
    THEN FreeFrom(taken, NumberedName(stem, counter, ext), stem, ext, counter + 1)
    ELSE name

(***************************************************************************)
(* FileHandler.create_output_path                                          *)
(***************************************************************************)
md == <<".", "m", "d">>

\* the names that exist in a directory: its files and its subdirectories
NamesIn(dir, fileset, dirset) ==
    {p[2] : p \in {q \in fileset : q[1] = dir}}
    \cup {d[Len(d)] : d \in {e \in dirset : Len(e) = Len(dir) + 1
                                          /\ Slice(e, 1, Len(dir)) = dir}}

\* target_dir of create_output_path; Outside is where it raises ValueError
TargetDir(os, output_dir) ==
    IF output_dir # <<>> THEN ResolveDir(os, output_dir) ELSE DefaultOutputDir

\* target_dir / output_filename.  A name that starts with a drive is not
\* appended as it is: on the drive of target_dir what follows the drive is
\* appended, on another drive the name replaces target_dir altogether (a
\* path on that drive, where no file is known to exist).
create_output_path(os, original_filename, output_dir, fileset, dirset) ==
    LET target_dir == TargetDir(os, output_dir)
        base_name  == PathStem(os, original_filename)
        drive      == DriveLen(os, base_name \o md)
        rel_name   == Slice(base_name, drive + 1, Len(base_name))
        taken      == NamesIn(target_dir, fileset, dirset \cup Ancestors(target_dir))
    IN  IF drive > 0 /\ UpperChar(base_name[1]) # CwdDrive
        THEN <<Outside, base_name \o md>>
        ELSE <<target_dir, FreeFrom(taken, rel_name \o md, rel_name, md, 1)>>

(***************************************************************************)
(* The request: an upload of files (UploadFile: filename, size) with an    *)
(* output directory, and the state of its handler upload_files.            *)
(***************************************************************************)
VARIABLES
    os,          \* the path flavour of the host
    files,       \* the uploaded files, in request order
    output_dir,  \* the output_dir form field
    phase,       \* upload_files: "received", "gather", "returned", "rejected", "cancelled"
    permits,     \* the value of the semaphore
    task,        \* one task per file: process_with_semaphore(file)
    uploads,     \* the leaf names that exist in the uploads directory
    outputs,     \* the output files that exist: <<directory, leaf name>>
    dirs,        \* the directories that exist below the working directory
    log,         \* the warnings logged by the cleanup
    response     \* what upload_files answers

vars == <<os, files, output_dir, phase, permits, task, uploads, outputs, dirs,
          log, response>>

N == Len(files)
Tasks == 1..N

(***************************************************************************)
(* process_single_file_async: the checks before staging                    *)
(***************************************************************************)
unknown == <<"u","n","k","n","o","w","n">>

\* the dict a worker returns; output_path {} is a missing key or None
FileResult(filename, success, error, output_path) ==
    [filename |-> filename, success |-> success, error |-> error,
     output_path |-> output_path]

forbidden_chars_found(filename) ==
    SelectSeq(forbidden_filename_patterns, LAMBDA pat : Contains(filename, pat))

\* ValidateFile that looks at the extension before the name and the size
ValidateFile_ExtFirst(os_, file) ==
    IF file.filename = <<>> THEN "NoFilename"
    ELSE IF ~is_supported_format(os_, file.filename) THEN "UnsupportedFormat"
    ELSE IF Len(file.filename) > max_filename_length THEN "FilenameTooLong"
    ELSE IF forbidden_chars_found(file.filename) # <<>> THEN "ForbiddenChars"
    ELSE IF file.size # NoSize /\ file.size < min_file_size THEN "EmptyFile"
    ELSE IF ~validate_mime_type(os_, file.filename) THEN "MimeMismatch"
    ELSE "ok"

\* the first check of lines 120-168 that rejects the file, "ok" when none does
ValidateFile(os_, file) ==
    IF file.filename = <<>> THEN "NoFilename"
    ELSE IF Len(file.filename) > max_filename_length THEN "FilenameTooLong"
    ELSE IF forbidden_chars_found(file.filename) # <<>> THEN "ForbiddenChars"
    ELSE IF file.size # NoSize /\ file.size < min_file_size THEN "EmptyFile"
    ELSE IF ~is_supported_format(os_, file.filename) THEN "UnsupportedFormat"
    ELSE IF ~validate_mime_type(os_, file.filename) THEN "MimeMismatch"
    ELSE "ok"

\* the "filename" of the dict returned for a rejected file
DisplayName(file, error) ==
    CASE error = "NoFilename" -> unknown
      [] error = "FilenameTooLong" ->
             Slice(file.filename, 1, 50) \o <<".", ".", ".">>
      [] OTHER -> file.filename

\* ErrorOfException with a last except clause that returns no error text
ErrorOfException_NoText(exc) ==
    CASE exc = "FileNotFoundError" -> "TempFileDeleted"
      [] exc = "PermissionError" -> "PermissionError"
      [] exc = "OSError" -> "SystemError"
      [] OTHER -> "None"

\* the except clauses of lines 199-222, by the class of the exception
ErrorOfException(exc) ==
    CASE exc = "FileNotFoundError" -> "TempFileDeleted"
      [] exc = "PermissionError" -> "PermissionError"
      [] exc = "OSError" -> "SystemError"
      [] OTHER -> "Unexpected"

(***************************************************************************)
(* upload_files: the checks on the whole batch, lines 231-282              *)
(***************************************************************************)
\* str.strip(): white space only
RECURSIVE WsLStrip(_)
WsLStrip(s) ==
    IF s # <<>> /\ s[1] \in {" ", "\t", "\n", "\r"} THEN WsLStrip(Tail(s)) ELSE s

Rejection(status, detail, what) ==
    [status |-> status, detail |-> detail, what |-> what]

NoRejection == Rejection(0, "None", <<>>)

\* the forbidden patterns found in output_dir, in the order of the setting
PatternsFound(dir) ==
    SelectSeq(forbidden_output_dir_patterns, LAMBDA pat : Contains(dir, pat))

\* the indices of the files whose declared size is over max_file_size
TooLarge(fs) ==
    {i \in 1..Len(fs) : fs[i].size # NoSize /\ fs[i].size # 0
                         /\ fs[i].size > max_file_size}

RECURSIVE TotalSize(_)
TotalSize(fs) ==
    IF fs = <<>> THEN 0
    ELSE (IF Head(fs).size # NoSize THEN Head(fs).size ELSE 0) + TotalSize(Tail(fs))

\* BatchRejection with the leading dot checked before the forbidden patterns
BatchRejection_DotFirst(fs, dir) ==
    IF Len(fs) = 0 THEN Rejection(400, "NoFiles", <<>>)
    ELSE IF Len(fs) > max_files_count THEN Rejection(400, "TooManyFiles", <<>>)
    ELSE IF dir # <<>> /\ Len(dir) > max_output_dir_length
         THEN Rejection(400, "OutputDirTooLong", <<>>)
    ELSE IF dir # <<>> /\ WsLStrip(dir) # <<>> /\ WsLStrip(dir)[1] = "."
         THEN Rejection(400, "StartsWithDot", <<>>)
    ELSE IF dir # <<>> /\ PatternsFound(dir) # <<>>
         THEN Rejection(400, "ForbiddenPattern", Head(PatternsFound(dir)))
    ELSE IF TooLarge(fs) # {}
         THEN Rejection(413, "FileTooLarge",
                        fs[CHOOSE i \in TooLarge(fs) :
                               \A j \in TooLarge(fs) : i <= j].filename)
    ELSE IF TotalSize(fs) > max_total_size
         THEN Rejection(413, "TotalTooLarge", <<>>)
    ELSE NoRejection

\* BatchRejection without the check of the number of files
BatchRejection_NoCount(fs, dir) ==
    IF Len(fs) = 0 THEN Rejection(400, "NoFiles", <<>>)
    ELSE IF dir # <<>> /\ Len(dir) > max_output_dir_length
         THEN Rejection(400, "OutputDirTooLong", <<>>)
    ELSE IF dir # <<>> /\ PatternsFound(dir) # <<>>
         THEN Rejection(400, "ForbiddenPattern", Head(PatternsFound(dir)))
    ELSE IF dir # <<>> /\ WsLStrip(dir) # <<>> /\ WsLStrip(dir)[1] = "."
         THEN Rejection(400, "StartsWithDot", <<>>)
    ELSE IF TooLarge(fs) # {}
         THEN Rejection(413, "FileTooLarge",
                        fs[CHOOSE i \in TooLarge(fs) :
                               \A j \in TooLarge(fs) : i <= j].filename)
    ELSE IF TotalSize(fs) > max_total_size
         THEN Rejection(413, "TotalTooLarge", <<>>)
    ELSE NoRejection

\* the HTTPException upload_files raises for the batch, NoRejection when none
BatchRejection(fs, dir) ==
    IF Len(fs) = 0 THEN Rejection(400, "NoFiles", <<>>)
    ELSE IF Len(fs) > max_files_count THEN Rejection(400, "TooManyFiles", <<>>)
    ELSE IF dir # <<>> /\ Len(dir) > max_output_dir_length
         THEN Rejection(400, "OutputDirTooLong", <<>>)
    ELSE IF dir # <<>> /\ PatternsFound(dir) # <<>>
         THEN Rejection(400, "ForbiddenPattern", Head(PatternsFound(dir)))
    ELSE IF dir # <<>> /\ WsLStrip(dir) # <<>> /\ WsLStrip(dir)[1] = "."
         THEN Rejection(400, "StartsWithDot", <<>>)
    ELSE IF TooLarge(fs) # {}
         THEN Rejection(413, "FileTooLarge",
                        fs[CHOOSE i \in TooLarge(fs) :
                               \A j \in TooLarge(fs) : i <= j].filename)
    ELSE IF TotalSize(fs) > max_total_size
         THEN Rejection(413, "TotalTooLarge", <<>>)
    ELSE NoRejection

(***************************************************************************)
(* The tasks                                                               *)
(***************************************************************************)
\* where a task that holds a slot is suspended: the await it is waiting at
InPipeline == {"stage_exists", "stage_open", "stage_write", "convert",
               "cleanup_exists", "cleanup_recheck", "cleanup_remove"}

FreshTask ==
    [pc            |-> "pending",  \* not yet through "async with semaphore"
     safe_filename |-> <<>>,       \* save_uploaded_file_async: safe_filename
     file_path     |-> <<>>,       \* save_uploaded_file_async: file_path (leaf)
     counter       |-> 1,          \* save_uploaded_file_async: counter
     temp_path     |-> {},         \* temporary_file_async: temp_path, {} is None
     output_path   |-> {},         \* process_single_file_async: output_path
     exc           |-> "None",     \* the exception that ended the body or the task
     result        |-> {}]         \* the dict the task returned, {} before

Holding(i) == task[i].pc \in InPipeline

\* max_concurrent that gives the semaphore no slot
max_concurrent_None(n) == 0

\* max_concurrent without the cap of the setting: a slot per file
max_concurrent_PerFile(n) == n

\* max_concurrent = min(settings.max_concurrent_files, len(files)), the
\* initial value of the semaphore
max_concurrent(n) == Min(max_concurrent_files, n)

\* Release that gives no slot back
Release_Leak(value) == value

\* "async with semaphore" is left, normally or by an exception: release()
Release(value) == value + 1

\* loop.run_in_executor(executor, converter.convert_to_file, temp_path,
\* output_path): convert_to_file is a coroutine function, so the call made in
\* the worker thread only builds a coroutine object; its body never runs
ExecutorCall(temp_path, out_path) == [kind |-> "coroutine"]

\* lines 191-197 on what the executor handed back: subscripting a coroutine
\* object raises TypeError; a dict gives the worker's result
BodyOutcome(file, result) ==
    IF result.kind = "coroutine"
    THEN [exc |-> "TypeError", result |-> {}]
    ELSE [exc |-> "None",
          result |-> {FileResult(file.filename, result.success, result.error,
                                  IF result.success THEN result.output_path ELSE {})}]

\* the task leaves process_single_file_async with exception exc in flight:
\* the except clauses turn it into a dict, CancelledError passes through
\* them.  The frames of the task are gone, and their locals with them.
EndWith(t, file, exc) ==
    IF exc = "CancelledError"
    THEN [FreshTask EXCEPT !.pc = "cancelled", !.exc = exc]
    ELSE [FreshTask EXCEPT !.pc = "done", !.exc = exc,
                           !.result = {FileResult(file.filename, FALSE,
                                                  ErrorOfException(exc), {})}]

\* EndScope that sends a failed conversion back to the conversion
EndScope_Retry(t, file) ==
    IF t.exc = "None" THEN [FreshTask EXCEPT !.pc = "done", !.result = t.result]
    ELSE IF t.exc = "TypeError" THEN [t EXCEPT !.pc = "convert", !.exc = "None"]
    ELSE EndWith(t, file, t.exc)

\* the task leaves the scope of temporary_file_async after its cleanup
EndScope(t, file) ==
    IF t.exc = "None" THEN [FreshTask EXCEPT !.pc = "done", !.result = t.result]
    ELSE EndWith(t, file, t.exc)

(***************************************************************************)
(* upload_files, lines 231-294: reject the batch, or make the semaphore    *)
(* and one task per file                                                   *)
(***************************************************************************)
NoResponse ==
    [status |-> 0, detail |-> "None", what |-> <<>>, results |-> <<>>,
     total_files |-> 0, successful |-> 0, failed |-> 0]

ValidateBatch ==
    /\ phase = "received"
    /\ LET rej == BatchRejection(files, output_dir)
       IN  IF rej.status # 0
           THEN /\ phase' = "rejected"
                /\ response' = [NoResponse EXCEPT !.status = rej.status,
                                                  !.detail = rej.detail,
                                                  !.what = rej.what]
                /\ UNCHANGED permits
           ELSE /\ phase' = "gather"
                /\ permits' = max_concurrent(N)
                /\ UNCHANGED response
    /\ UNCHANGED <<os, files, output_dir, task, uploads, outputs, dirs, log>>

(***************************************************************************)
(* process_with_semaphore(file): a task takes a slot (tasks start, and     *)
(* waiters wake, in the order of the files) and runs without suspending    *)
(* through the checks and create_output_path; a rejected file returns its  *)
(* dict and frees the slot at once, an accepted one stops at the first     *)
(* await of save_uploaded_file_async.                                      *)
(***************************************************************************)
Start(i) ==
    /\ phase = "gather"
    /\ task[i].pc = "pending"
    /\ permits > 0
    /\ \A j \in 1..(i - 1) : task[j].pc # "pending"
    /\ LET file == files[i]
           v    == ValidateFile(os, file)
           safe == SanitizeFilename(os, file.filename)
       IN  IF v # "ok"
           THEN /\ task' = [task EXCEPT ![i] =
                      [@ EXCEPT !.pc = "done",
                                !.result = {FileResult(DisplayName(file, v),
                                                       FALSE, v, {})}]]
                /\ UNCHANGED <<permits, dirs>>
           ELSE IF TargetDir(os, output_dir) = Outside
           THEN /\ task' = [task EXCEPT ![i] =
                      [@ EXCEPT !.pc = "done",
                                !.result = {FileResult(file.filename, FALSE,
                                                       "OutputDirError", {})}]]
                /\ UNCHANGED <<permits, dirs>>
           ELSE /\ dirs' = dirs \cup Ancestors(TargetDir(os, output_dir))
                /\ permits' = permits - 1
                /\ task' = [task EXCEPT ![i] =
                      [@ EXCEPT !.pc = "stage_exists",
                                !.output_path = {create_output_path(
                                    os, file.filename, output_dir, outputs, dirs)},
                                !.safe_filename = safe,
                                !.file_path = safe,
                                !.counter = 1]]
    /\ UNCHANGED <<os, files, output_dir, phase, uploads, outputs, log, response>>

(***************************************************************************)
(* FileHandler.save_uploaded_file_async                                    *)
(***************************************************************************)
\* one turn of "while await aiofiles.os.path.exists(file_path)"
StageExists(i) ==
    /\ task[i].pc = "stage_exists"
    /\ LET t == task[i]
       IN  task' = [task EXCEPT ![i] =
               IF t.file_path \in uploads
               THEN [t EXCEPT !.file_path =
                                  NumberedName(PathStem(os, t.safe_filename),
                                               t.counter,
                                               PathSuffix(os, t.safe_filename)),
                              !.counter = t.counter + 1]
               ELSE [t EXCEPT !.pc = "stage_open"]]
    /\ UNCHANGED <<os, files, output_dir, phase, permits, uploads, outputs, dirs,
                   log, response>>

\* aiofiles.open(file_path, 'wb'): creates or truncates the file, or raises
OpenOutcomes == {"ok", "FileNotFoundError", "PermissionError"}

StageOpen(i) ==
    /\ task[i].pc = "stage_open"
    /\ \E outcome \in OpenOutcomes :
          IF outcome = "ok"
          THEN /\ uploads' = uploads \cup {task[i].file_path}
               /\ task' = [task EXCEPT ![i].pc = "stage_write"]
               /\ UNCHANGED permits
          ELSE /\ task' = [task EXCEPT ![i] = EndWith(@, files[i], outcome)]
               /\ permits' = Release(permits)
               /\ UNCHANGED uploads
    /\ UNCHANGED <<os, files, output_dir, phase, outputs, dirs, log, response>>

\* the chunks are read and written and the file is closed, or a write raises;
\* save_uploaded_file_async logs and raises again, temp_path stays None
WriteOutcomes == {"ok", "OSError"}

StageWrite(i) ==
    /\ task[i].pc = "stage_write"
    /\ \E outcome \in WriteOutcomes :
          IF outcome = "ok"
          THEN /\ task' = [task EXCEPT ![i] =
                     [@ EXCEPT !.pc = "convert",
                               !.temp_path = {task[i].file_path}]]
               /\ UNCHANGED permits
          ELSE /\ task' = [task EXCEPT ![i] = EndWith(@, files[i], outcome)]
               /\ permits' = Release(permits)
    /\ UNCHANGED <<os, files, output_dir, phase, uploads, outputs, dirs, log,
                   response>>

(***************************************************************************)
(* process_single_file_async, lines 181-197: the body of the scope         *)
(***************************************************************************)
Convert(i) ==
    /\ task[i].pc = "convert"
    /\ LET t   == task[i]
           out == BodyOutcome(files[i],
                              ExecutorCall(t.temp_path, t.output_path))
       IN  task' = [task EXCEPT ![i] =
               [@ EXCEPT !.pc = "cleanup_exists", !.exc = out.exc,
                         !.result = out.result]]
    /\ UNCHANGED <<os, files, output_dir, phase, permits, uploads, outputs, dirs,
                   log, response>>

(***************************************************************************)
(* FileHandler.temporary_file_async: the finally clause                    *)
(***************************************************************************)
TempLeaf(i) == CHOOSE p \in task[i].temp_path : TRUE

\* "if temp_path and await aiofiles.os.path.exists(temp_path)"
CleanupExists(i) ==
    /\ task[i].pc = "cleanup_exists"
    /\ IF TempLeaf(i) \in uploads
       THEN /\ task' = [task EXCEPT ![i].pc = "cleanup_recheck"]
            /\ UNCHANGED permits
       ELSE /\ task' = [task EXCEPT ![i] = EndScope(@, files[i])]
            /\ permits' = Release(permits)
    /\ UNCHANGED <<os, files, output_dir, phase, uploads, outputs, dirs, log,
                   response>>

\* cleanup_temp_file_async: "if await aiofiles.os.path.exists(file_path)"
CleanupRecheck(i) ==
    /\ task[i].pc = "cleanup_recheck"
    /\ IF TempLeaf(i) \in uploads
       THEN /\ task' = [task EXCEPT ![i].pc = "cleanup_remove"]
            /\ UNCHANGED permits
       ELSE /\ task' = [task EXCEPT ![i] = EndScope(@, files[i])]
            /\ permits' = Release(permits)
    /\ UNCHANGED <<os, files, output_dir, phase, uploads, outputs, dirs, log,
                   response>>

\* cleanup_temp_file_async: "await aiofiles.os.remove(file_path)"; when it
\* raises, cleanup_temp_file_async returns False and the warning is logged
RemoveOutcomes == {"ok", "PermissionError"}

Warning(i) == [level |-> "WARNING", task |-> i]

CleanupRemove(i) ==
    /\ task[i].pc = "cleanup_remove"
    /\ \E outcome \in RemoveOutcomes :
          IF outcome = "ok" /\ TempLeaf(i) \in uploads
          THEN /\ uploads' = uploads \ {TempLeaf(i)}
               /\ UNCHANGED log
          ELSE /\ log' = log \cup {Warning(i)}
               /\ UNCHANGED uploads
    /\ task' = [task EXCEPT ![i] = EndScope(@, files[i])]
    /\ permits' = Release(permits)
    /\ UNCHANGED <<os, files, output_dir, phase, outputs, dirs, response>>

(***************************************************************************)
(* The request is cancelled while upload_files awaits gather: gather       *)
(* cancels every task that has not finished, and each gets CancelledError  *)
(* at the await it is suspended at.  An open or a remove already handed to *)
(* a worker thread may still run (ran) or not.                             *)
(***************************************************************************)
Cancelled(t, file) ==
    CASE t.pc \in {"done", "cancelled"} -> t
      [] t.pc = "convert" ->
             [t EXCEPT !.pc = "cleanup_exists", !.exc = "CancelledError"]
      [] OTHER -> EndWith(t, file, "CancelledError")

CancelBatch ==
    /\ phase = "gather"
    /\ phase' = "cancelled"
    /\ \E ran \in SUBSET {i \in Tasks : task[i].pc \in {"stage_open", "cleanup_remove"}} :
          /\ uploads' = (uploads
                           \cup {task[i].file_path :
                                   i \in {j \in ran : task[j].pc = "stage_open"}})
                        \ {TempLeaf(i) :
                                   i \in {j \in ran : task[j].pc = "cleanup_remove"}}
          /\ task' = [i \in Tasks |-> Cancelled(task[i], files[i])]
    /\ permits' = permits
                  + Cardinality({i \in Tasks : Holding(i) /\ task[i].pc # "convert"})
    /\ UNCHANGED <<os, files, output_dir, outputs, dirs, log, response>>

(***************************************************************************)
(* upload_files, lines 296-318: gather has every task's outcome, in the    *)
(* order of the tasks; an exception among them becomes an error dict       *)
(***************************************************************************)
TheResult(t) == CHOOSE r \in t.result : TRUE

\* processed_results that leaves out the tasks an exception ended
processed_results_Skipping(ts, fs) ==
    LET kept == SelectSeq([i \in 1..Len(fs) |-> i], LAMBDA i : ts[i].exc = "None")
    IN  [k \in 1..Len(kept) |-> TheResult(ts[kept[k]])]

processed_results(ts, fs) ==
    [i \in 1..Len(fs) |->
        IF ts[i].pc = "raised"
        THEN FileResult(fs[i].filename, FALSE, "UnexpectedConcurrent", {})
        ELSE TheResult(ts[i])]

CountWhere(rs, Test(_)) == Cardinality({i \in 1..Len(rs) : Test(rs[i])})

JSONResponse(rs, fs) ==
    [NoResponse EXCEPT
        !.status = 200,
        !.results = rs,
        !.total_files = Len(fs),
        !.successful = CountWhere(rs, LAMBDA r : r.success),
        !.failed = CountWhere(rs, LAMBDA r : ~r.success)]

Return ==
    /\ phase = "gather"
    /\ \A i \in Tasks : task[i].pc \in {"done", "raised"}
    /\ phase' = "returned"
    /\ response' = JSONResponse(processed_results(task, files), files)
    /\ UNCHANGED <<os, files, output_dir, permits, task, uploads, outputs, dirs,
                   log>>

(***************************************************************************)
(* The requests of the model                                               *)
(***************************************************************************)
MaxBatch == 3

\* an upload: its filename, the size the request declares for it (NoSize
\* when none) and the number of bytes its stream holds
StreamedFile(filename, size, length) ==
    [filename |-> filename, size |-> size, length |-> length]

\* an upload whose stream holds what is declared, one byte when nothing is
UploadFile(filename, size) ==
    StreamedFile(filename, size, IF size = NoSize THEN 1 ELSE size)

a_txt == <<"a", ".", "t", "x", "t">>
a_md == <<"a", ".", "m", "d">>
LongName == [i \in 1..(max_filename_length + 1) |-> "x"] \o <<".", "t", "x", "t">>
LongFaulty ==
    [i \in 1..(max_filename_length + 1) |-> "<"] \o <<".", "e", "x", "e">>
LongDir == [i \in 1..(max_output_dir_length + 1) |-> "o"]

\* an upload that goes through the pipeline (twice in a batch, two uploads
\* of one name) and one of an unsupported format
CoreFiles ==
    { UploadFile(a_txt, 1),
      UploadFile(<<"a", ".", "e", "x", "e">>, 1) }

\* an upload with the stem of a.txt under another name, two that sanitize to
\* the name a.txt, one for each other check of the pipeline, and two of
\* undeclared size that hold no byte and more bytes than max_file_size, and
\* three that fail several checks of the pipeline at once
OtherFiles ==
    { UploadFile(a_md, 1),
      UploadFile(<<"d", "/">> \o a_txt, 1),
      UploadFile(<<>>, 1),
      UploadFile(LongName, 1),
      UploadFile(<<"a", "<", ".", "t", "x", "t">>, 1),
      UploadFile(a_txt, 0),
      UploadFile(a_txt, NoSize),
      StreamedFile(a_txt, NoSize, 0),
      StreamedFile(a_txt, NoSize, max_file_size + 1),
      UploadFile(<<"a", ".", "w", "a", "v">>, 1),
      UploadFile(<<"d", "\\">> \o a_txt, 1),
      UploadFile(a_txt, max_file_size + 1),
      UploadFile(LongFaulty, 0),
      UploadFile(<<"a", "<", ".", "e", "x", "e">>, 0),
      UploadFile(<<"a", ".", "e", "x", "e">>, 0) }

\* every batch of up to MaxBatch core files
CoreBatches == UNION {[1..k -> CoreFiles] : k \in 0..MaxBatch}

\* no file, each other file alone and beside a.txt, one file more than
\* max_files_count, files of max_file_size that add up to more than
\* max_total_size, and too many files the first of which is too large
OtherBatches ==
    {<<>>}
    \cup {<<f>> : f \in OtherFiles}
    \cup {<<f, UploadFile(a_txt, 1)>> : f \in OtherFiles}
    \cup {<<UploadFile(a_txt, 1), f>> : f \in OtherFiles}
    \cup {[i \in 1..(max_files_count + 1) |-> UploadFile(a_txt, 1)]}
    \cup {[i \in 1..((max_total_size \div max_file_size) + 1) |->
              UploadFile(a_txt, max_file_size)]}
    \cup {[i \in 1..(max_files_count + 1) |->
              UploadFile(a_txt, IF i = 1 THEN max_file_size + 1 ELSE 1)]}

OutputDirs ==
    { <<>>, <<"o", "u", "t">>, <<".", ".", "/", "x">>, <<".", "h">>,
      <<"a", "/", "b">>, <<"C", ":">>, LongDir, <<".", ".">> \o LongDir }

\* the core batches go to one output directory on one host (their names
\* have no separator), the other batches to every directory on both
Requests ==
    {[os |-> "posix", files |-> fs, output_dir |-> <<"o", "u", "t">>] :
        fs \in CoreBatches}
    \cup {[os |-> o, files |-> fs, output_dir |-> d] :
            o \in OsNames, fs \in OtherBatches, d \in OutputDirs}

Init ==
    /\ \E r \in Requests :
          /\ os = r.os
          /\ files = r.files
          /\ output_dir = r.output_dir
    /\ phase = "received"
    /\ permits = 0
    /\ task = [i \in 1..Len(files) |-> FreshTask]
    /\ uploads = {}
    /\ outputs = {<<DefaultOutputDir, a_md>>}
    /\ dirs = {UploadsDir, DefaultOutputDir}
    /\ log = {}
    /\ response = NoResponse

Next ==
    \/ ValidateBatch
    \/ \E i \in Tasks : Start(i)
    \/ \E i \in Tasks : StageExists(i)
    \/ \E i \in Tasks : StageOpen(i)
    \/ \E i \in Tasks : StageWrite(i)
    \/ \E i \in Tasks : Convert(i)
    \/ \E i \in Tasks : CleanupExists(i)
    \/ \E i \in Tasks : CleanupRecheck(i)
    \/ \E i \in Tasks : CleanupRemove(i)
    \/ CancelBatch
    \/ Return

Spec == Init /\ [][Next]_vars

(***************************************************************************)
(* Collision-safe naming on its own.  One caller at a time, as in the      *)
(* tests of FileHandler: it resolves output paths with create_output_path, *)
(* creates the file it resolved, and stages uploads with                   *)
(* save_uploaded_file, in directories that hold files already.  task is    *)
(* the sequence of the calls made, each with the path it returned.  The    *)
(* names of the calls have "/" as their only separator and no drive, so    *)
(* both path flavours split them alike: one host is run.                   *)
(***************************************************************************)
MaxCalls == 3

a_1_md == <<"a", "_", "1", ".", "m", "d">>
a_2_md == <<"a", "_", "2", ".", "m", "d">>

NamingNames == {a_txt, a_md, <<"d", "/">> \o a_txt}

NamingDirs == {<<>>, <<"o", "u", "t">>}

NamingCall(op, filename, dir, path) ==
    [pc |-> op, filename |-> filename, output_dir |-> dir, path |-> path]

InitNaming ==
    /\ os = "posix"
    /\ files = <<>>
    /\ output_dir = <<>>
    /\ phase = "naming"
    /\ permits = 0
    /\ task = <<>>
    /\ uploads \in SUBSET {a_txt}
    /\ outputs \in SUBSET {<<DefaultOutputDir, a_md>>, <<DefaultOutputDir, a_2_md>>}
    /\ dirs \in {{UploadsDir, DefaultOutputDir},
                 {UploadsDir, DefaultOutputDir, Append(DefaultOutputDir, a_1_md)}}
    /\ log = {}
    /\ response = NoResponse

\* FileHandler.create_output_path(original_filename, output_dir)
ResolveOutput ==
    /\ phase = "naming"
    /\ Len(task) < MaxCalls
    /\ \E original_filename \in NamingNames, dir \in NamingDirs :
          /\ TargetDir(os, dir) # Outside
          /\ dirs' = dirs \cup Ancestors(TargetDir(os, dir))
          /\ task' = Append(task,
                 NamingCall("create_output_path", original_filename, dir,
                            create_output_path(os, original_filename, dir,
                                               outputs, dirs)))
    /\ UNCHANGED <<os, files, output_dir, phase, permits, uploads, outputs, log,
                   response>>

\* the caller creates the file at the path it resolved last
WriteResolved ==
    /\ phase = "naming"
    /\ task # <<>>
    /\ task[Len(task)].pc = "create_output_path"
    /\ task[Len(task)].path \notin outputs
    /\ outputs' = outputs \cup {task[Len(task)].path}
    /\ UNCHANGED <<os, files, output_dir, phase, permits, task, uploads, dirs, log,
                   response>>

\* FileHandler.save_uploaded_file(file_content, filename)
SaveUploaded ==
    /\ phase = "naming"
    /\ Len(task) < MaxCalls
    /\ \E filename \in NamingNames :
          LET safe_filename == SanitizeFilename(os, filename)
              file_path == FreeFrom(uploads, safe_filename,
                                    PathStem(os, safe_filename),
                                    PathSuffix(os, safe_filename), 1)
          IN  /\ uploads' = uploads \cup {file_path}
              /\ task' = Append(task,
                     NamingCall("save_uploaded_file", filename, UploadsDir,
                                <<UploadsDir, file_path>>))
    /\ UNCHANGED <<os, files, output_dir, phase, permits, outputs, dirs, log,
                   response>>

NextNaming ==
    \/ ResolveOutput
    \/ WriteResolved
    \/ SaveUploaded

SpecNaming == InitNaming /\ [][NextNaming]_vars

(***************************************************************************)
(* Sanitisation on its own.  A raw name arrives (files holds it), is       *)
(* sanitized, and the result is sanitized again, up to MaxPasses calls.    *)
(* task is the sequence of the calls made: the name each was given and the *)
(* name it returned.  The two long names are sized from the limits of      *)
(* _sanitize_filename: a stem that has a space as the last character kept  *)
(* by the cut, and an extension that alone is over the limit.              *)
(***************************************************************************)
MaxPasses == 2

Rep(c, n) == [i \in 1..n |-> c]

LongStem ==
    Rep("x", SanitizeStemKeep - 1) \o <<" ">>
    \o Rep("y", SanitizeMaxLen + 1 - SanitizeStemKeep)

LongExt == <<".">> \o Rep("y", SanitizeMaxLen + 1)

RawDirs ==
    { <<>>, <<"d", "/">>, <<".", ".", "/", ".", ".", "/">>, <<"d", "\\">>,
      <<".", ".", "\\", ".", ".", "\\">>, <<"/">>, <<"C", ":">>,
      <<"C", ":", "\\">>, <<"d", "/", "b", ":">> }

RawStems ==
    { <<>>, <<"a">>, <<"c", "o", "n">>, <<"C", "O", "N">>,
      <<"C", "o", "m", "1">>, <<" ", "c", "o", "n">>, <<"c", "o", "n", " ">>,
      <<"N", "U", "L", "NUL">>, <<"a", "<", "b", "|", "\t">>, <<".", ".">>,
      <<"l", "p", "t", "0">>, LongStem, Rep("x", SanitizeMaxLen + 1) }

RawExts == { <<>>, <<".", "t", "x", "t">>, <<".">>, <<".", "a", ".", "b">>, LongExt }

RawNames == {d \o n \o e : d \in RawDirs, n \in RawStems, e \in RawExts}

SanitizeCall(filename, result) ==
    [pc |-> "_sanitize_filename", filename |-> filename, path |-> result]

InitSanitize ==
    /\ os \in OsNames
    /\ files \in {<<UploadFile(x, NoSize)>> : x \in RawNames}
    /\ output_dir = <<>>
    /\ phase = "sanitize"
    /\ permits = 0
    /\ task = <<>>
    /\ uploads = {}
    /\ outputs = {}
    /\ dirs = {UploadsDir, DefaultOutputDir}
    /\ log = {}
    /\ response = NoResponse

\* FileHandler._sanitize_filename(filename) on the raw name
SanitizeRaw ==
    /\ phase = "sanitize"
    /\ task = <<>>
    /\ task' = <<SanitizeCall(files[1].filename,
                              SanitizeFilename(os, files[1].filename))>>
    /\ UNCHANGED <<os, files, output_dir, phase, permits, uploads, outputs,
                   dirs, log, response>>

\* FileHandler._sanitize_filename(filename) on the name returned last
SanitizeAgain ==
    /\ phase = "sanitize"
    /\ task # <<>>
    /\ Len(task) < MaxPasses
    /\ task' = Append(task,
                      SanitizeCall(task[Len(task)].path,
                                   SanitizeFilename(os, task[Len(task)].path)))
    /\ UNCHANGED <<os, files, output_dir, phase, permits, uploads, outputs,
                   dirs, log, response>>

NextSanitize ==
    \/ SanitizeRaw
    \/ SanitizeAgain

SpecSanitize == InitSanitize /\ [][NextSanitize]_vars

(***************************************************************************)
(* The output path resolver on its own: one call of create_output_path     *)
(* with a name (files holds it) and a requested directory, from a working  *)
(* directory that holds the uploads and the default output directory.      *)
(* task holds the call once made: the path returned, or the exception.     *)
(***************************************************************************)
ResolveNames ==
    { a_txt, <<"d", "/">> \o a_txt, <<"d", "\\">> \o a_txt, <<>>, <<".", ".">>,
      <<"d", "/", "b", ":", "c", ".", "t", "x", "t">>,
      <<"d", "/", "C", ":", "c", ".", "t", "x", "t">> }

ResolveDirs ==
    { <<>>, <<"o", "u", "t">>, <<"a", "/", "b">>, <<".">>, <<".", ".">>,
      <<".", ".", "/", "x">>, <<".", ".", "/", ".", ".", "/", "x">>,
      <<"/", "e", "t", "c">>, <<".", ".", "\\", ".", ".", "\\", "x">>,
      <<"C", ":", "\\", "x">>, <<"C", ":">>, <<"D", ":", "x">>,
      <<"a", ".", ".", "b">>,
      <<"x", "/", ".", ".", "/", "y">>, <<"x", "/", ".", ".", "/", ".", ".", "/", "y">>,
      <<"o", "u", "t", "/", ".", ".">> }

ResolveCall(filename, dir, path, exc) ==
    [pc |-> "create_output_path", filename |-> filename, output_dir |-> dir,
     path |-> path, exc |-> exc]

InitResolve ==
    /\ os \in OsNames
    /\ files \in {<<UploadFile(x, NoSize)>> : x \in ResolveNames}
    /\ output_dir \in ResolveDirs
    /\ phase = "resolve"
    /\ permits = 0
    /\ task = <<>>
    /\ uploads = {}
    /\ outputs \in SUBSET {<<DefaultOutputDir, a_md>>}
    /\ dirs = {UploadsDir, DefaultOutputDir}
    /\ log = {}
    /\ response = NoResponse

\* FileHandler.create_output_path(original_filename, output_dir): ValueError
\* before anything is created, or the directory made and the path returned
Resolve ==
    /\ phase = "resolve"
    /\ task = <<>>
    /\ IF TargetDir(os, output_dir) = Outside
       THEN /\ task' = <<ResolveCall(files[1].filename, output_dir, {},
                                     "ValueError")>>
            /\ dirs' = dirs
       ELSE /\ task' = <<ResolveCall(files[1].filename, output_dir,
                             {create_output_path(os, files[1].filename,
                                                 output_dir, outputs, dirs)},
                             "None")>>
            /\ dirs' = dirs \cup Ancestors(TargetDir(os, output_dir))
    /\ UNCHANGED <<os, files, output_dir, phase, permits, uploads, outputs,
                   log, response>>

NextResolve == Resolve

SpecResolve == InitResolve /\ [][NextResolve]_vars

(***************************************************************************)
(* The conversion adapter on its own.  A staged file (files holds its      *)
(* name, uploads tells whether it exists) is converted to the output path  *)
(* OutputPath in two ways: a caller awaits DocumentConverter's             *)
(* convert_to_file, as its tests do, against an engine (MarkItDown) whose  *)
(* outcome is any of EngineOutcomes; and the body of the worker,           *)
(* process_single_file_async, hands convert_to_file to the executor.  task *)
(* holds the awaited call, response.results the dict of the worker.        *)
(***************************************************************************)
\* what MarkItDown.convert does: raise Exception(message), or return None,
\* an object without text_content, or an object whose text_content is None
\* (text {}), the empty string or a text
Engine(kind, text, message) == [kind |-> kind, text |-> text, message |-> message]

EngineOutcomes ==
    { Engine("raises", {}, "MarkItDown error"), Engine("raises", {}, ""),
      Engine("None", {}, ""), Engine("no_attribute", {}, ""),
      Engine("result", {}, ""), Engine("result", {<<>>}, ""),
      Engine("result", {<<"#", " ", "a">>}, "") }

\* the dict of convert_document and convert_to_file; {} is None or no key
ConversionResult(success, content, error, output_path) ==
    [success |-> success, content |-> content, error |-> error,
     output_path |-> output_path]

\* DocumentConverter.convert_document(input_path), given whether the file
\* exists and what the engine does with it
convert_document(os_, input_path, exists, engine) ==
    IF ~exists THEN ConversionResult(FALSE, {}, "File not found", {})
    ELSE IF ~is_supported_format(os_, input_path)
         THEN ConversionResult(FALSE, {}, "Unsupported file format", {})
    ELSE IF engine.kind = "raises"
         THEN ConversionResult(FALSE, {}, engine.message, {})
    ELSE IF engine.kind = "result"
         THEN ConversionResult(TRUE, engine.text, "None", {})
    ELSE ConversionResult(FALSE, {}, "MarkItDown returned empty result", {})

\* aiofiles.open(output_path, 'w') and f.write(content)
SaveOutcomes == {"ok", "open: OSError", "write: OSError"}

OutputPath == <<DefaultOutputDir, a_md>>

ConvertCall(input_path, engine, result) ==
    [pc |-> "convert_to_file", input_path |-> input_path, engine |-> engine,
     result |-> result]

InitConverter ==
    /\ os \in OsNames
    /\ files \in {<<UploadFile(x, 1)>> : x \in {a_txt, <<"a", ".", "e", "x", "e">>}}
    /\ output_dir = <<>>
    /\ phase = "converter"
    /\ permits = 0
    /\ task = <<>>
    /\ uploads \in SUBSET {files[1].filename}
    /\ outputs \in SUBSET {<<DefaultOutputDir, a_2_md>>}
    /\ dirs \in {{UploadsDir}, {UploadsDir, DefaultOutputDir}}
    /\ outputs # {} => DefaultOutputDir \in dirs
    /\ log = {}
    /\ response = NoResponse

\* await DocumentConverter.convert_to_file(input_path, output_path)
ConvertToFile ==
    /\ phase = "converter"
    /\ task = <<>>
    /\ \E engine \in EngineOutcomes, save \in SaveOutcomes :
          LET input_path == files[1].filename
              exists     == input_path \in uploads
              called     == exists /\ is_supported_format(os, input_path)
              result     == convert_document(os, input_path, exists, engine)
              opened     == result.success /\ save # "open: OSError"
              TypeError  == result.content = {}
              saved      == opened /\ save = "ok" /\ ~TypeError
              final      ==
                  IF ~result.success THEN result
                  ELSE IF saved THEN [result EXCEPT !.output_path = {OutputPath}]
                  ELSE [result EXCEPT
                           !.success = FALSE,
                           !.error = IF ~opened \/ save # "ok"
                                     THEN "Failed to save file: OSError"
                                     ELSE "Failed to save file: TypeError"]
          IN  /\ task' = <<ConvertCall(input_path,
                                       IF called THEN {engine} ELSE {}, final)>>
              /\ dirs' = IF result.success
                         THEN dirs \cup Ancestors(OutputPath[1]) ELSE dirs
              /\ outputs' = IF opened THEN outputs \cup {OutputPath} ELSE outputs
    /\ UNCHANGED <<os, files, output_dir, phase, permits, uploads, log, response>>

\* process_single_file_async, lines 184-222: the body of the scope of the
\* staged file and the except clauses around it
ProcessBody ==
    /\ phase = "converter"
    /\ response.results = <<>>
    /\ LET out == BodyOutcome(files[1],
                              ExecutorCall({files[1].filename}, {OutputPath}))
       IN  response' = [response EXCEPT !.results =
               IF out.exc = "None" THEN <<CHOOSE r \in out.result : TRUE>>
               ELSE <<FileResult(files[1].filename, FALSE,
                                 ErrorOfException(out.exc), {})>>]
    /\ UNCHANGED <<os, files, output_dir, phase, permits, task, uploads,
                   outputs, dirs, log>>

NextConverter ==
    \/ ConvertToFile
    \/ ProcessBody

SpecConverter == InitConverter /\ [][NextConverter]_vars

(***************************************************************************)
(* The error texts.  Two runs of one request, side by side: in each the    *)
(* worker of the file has an exception of the same type in flight inside   *)
(* process_single_file_async, with a message of its own.  task holds the   *)
(* two workers, response.results the response of each run once returned.   *)
(* The error of a dict is the sequence of its fixed text and of what the   *)
(* code formats into it.                                                   *)
(***************************************************************************)
ExceptionTypes ==
    {"FileNotFoundError", "PermissionError", "OSError", "TypeError",
     "ValueError", "RuntimeError"}

Messages == {"closed file", "/srv/app/uploads/a.txt"}

\* the worker of a run: the exception in flight and the dict returned
RunTask(type, message) ==
    [pc |-> "raised_in_body", exc |-> type, message |-> message, result |-> {}]

\* ErrorText that formats the exception into every error
ErrorText_Verbatim(e) == <<ErrorOfException(e.exc), e.message>>

\* the "error" of the dict an except clause returns: only the clause for
\* OSError formats the exception (its strerror) into the text
ErrorText(e) ==
    IF e.exc = "OSError" THEN <<ErrorOfException(e.exc), e.message>>
    ELSE <<ErrorOfException(e.exc)>>

InitErrors ==
    /\ os \in OsNames
    /\ files = <<UploadFile(a_txt, 1)>>
    /\ output_dir = <<>>
    /\ phase = "errors"
    /\ permits = 0
    /\ \E type \in ExceptionTypes, m1 \in Messages, m2 \in Messages :
          task = <<RunTask(type, m1), RunTask(type, m2)>>
    /\ uploads = {}
    /\ outputs = {}
    /\ dirs = {UploadsDir, DefaultOutputDir}
    /\ log = {}
    /\ response = NoResponse

\* process_single_file_async, lines 199-222: the except clauses
CatchInWorker(k) ==
    /\ phase = "errors"
    /\ task[k].pc = "raised_in_body"
    /\ task' = [task EXCEPT ![k] =
           [@ EXCEPT !.pc = "done",
                     !.result = {FileResult(files[1].filename, FALSE,
                                            ErrorText(task[k]), {})}]]
    /\ UNCHANGED <<os, files, output_dir, phase, permits, uploads, outputs,
                   dirs, log, response>>

\* upload_files, lines 296-318, in run k: gather has the outcome of the
\* worker, the results are post-processed and the response is returned
ReturnRun(k) ==
    /\ phase = "errors"
    /\ k = Len(response.results) + 1
    /\ task[k].pc = "done"
    /\ response' = [response EXCEPT !.results =
           Append(@, JSONResponse(processed_results(<<task[k]>>, files), files))]
    /\ UNCHANGED <<os, files, output_dir, phase, permits, task, uploads,
                   outputs, dirs, log>>

NextErrors ==
    \/ \E k \in 1..2 : CatchInWorker(k)
    \/ \E k \in 1..2 : ReturnRun(k)

SpecErrors == InitErrors /\ [][NextErrors]_vars

(***************************************************************************)
(* The chunk reader.  One call of save_uploaded_file_async on a stream of  *)
(* length bytes, read chunk_size bytes at a time: task holds the call,     *)
(* with the offset of the stream, the bytes written to the staged file,    *)
(* the number of seeks the stream has had, and where the async generator   *)
(* _stream_file_chunks stands.  A generator left suspended at its yield    *)
(* by an exception of its consumer runs its finally only when the event    *)
(* loop finalizes it, which the call does not wait for.                    *)
(***************************************************************************)
MaxStream == 4

ChunkSizes == {1, 2}

StreamCall(length, chunk_size) ==
    [pc |-> "read", length |-> length, chunk_size |-> chunk_size,
     offset |-> 0, written |-> 0, seeks |-> 0, generator |-> "running",
     exc |-> ""]

InitStream ==
    /\ os \in OsNames
    /\ files = <<StreamedFile(a_txt, NoSize, 1)>>
    /\ output_dir = <<>>
    /\ phase = "stream"
    /\ permits = 0
    /\ \E length \in 0..MaxStream, chunk_size \in ChunkSizes :
          task = <<StreamCall(length, chunk_size)>>
    /\ uploads = {}
    /\ outputs = {}
    /\ dirs = {UploadsDir, DefaultOutputDir}
    /\ log = {}
    /\ response = NoResponse

\* _stream_file_chunks, line 294: await file.read(chunk_size) gives the next
\* chunk, which is yielded to the loop of line 271, or the empty chunk that
\* ends the while, or raises; leaving the try by either enters the finally
ReadChunk ==
    /\ phase = "stream"
    /\ task[1].pc = "read"
    /\ \E outcome \in {"chunk", "OSError"} :
          task' = [task EXCEPT ![1] =
              IF outcome = "OSError"
              THEN [@ EXCEPT !.pc = "finally", !.exc = "read: OSError"]
              ELSE IF @.offset = @.length
              THEN [@ EXCEPT !.pc = "finally"]
              ELSE [@ EXCEPT !.pc = "write", !.generator = "suspended",
                             !.offset = Min(@ + task[1].chunk_size,
                                            task[1].length)]]
    /\ UNCHANGED <<os, files, output_dir, phase, permits, uploads, outputs,
                   dirs, log, response>>

\* save_uploaded_file_async, lines 271-272 and 278-280: await f.write(chunk)
\* with the generator suspended at its yield; a failure leaves the async for
\* by the exception, which is logged and raised again to the caller
WriteChunk ==
    /\ phase = "stream"
    /\ task[1].pc = "write"
    /\ \E outcome \in {"ok", "OSError"} :
          task' = [task EXCEPT ![1] =
              IF outcome = "ok"
              THEN [@ EXCEPT !.pc = "read", !.generator = "running",
                             !.written = task[1].offset]
              ELSE [@ EXCEPT !.pc = "raised", !.exc = "write: OSError"]]
    /\ UNCHANGED <<os, files, output_dir, phase, permits, uploads, outputs,
                   dirs, log, response>>

\* _stream_file_chunks, lines 296-298: the finally of a generator that left
\* its try itself; then the call returns the path (line 277) or raises
SeekStart ==
    /\ phase = "stream"
    /\ task[1].pc = "finally"
    /\ task' = [task EXCEPT ![1] =
           [@ EXCEPT !.pc = IF task[1].exc = "" THEN "returned" ELSE "raised",
                     !.generator = "closed",
                     !.offset = 0,
                     !.seeks = @ + 1]]
    /\ UNCHANGED <<os, files, output_dir, phase, permits, uploads, outputs,
                   dirs, log, response>>

\* _stream_file_chunks, lines 296-298, run by the finalizer of the event
\* loop: the suspended generator of a call that has raised is closed
FinalizeGenerator ==
    /\ phase = "stream"
    /\ task[1].pc = "raised"
    /\ task[1].generator = "suspended"
    /\ task' = [task EXCEPT ![1] =
           [@ EXCEPT !.generator = "closed",
                     !.offset = 0,
                     !.seeks = @ + 1]]
    /\ UNCHANGED <<os, files, output_dir, phase, permits, uploads, outputs,
                   dirs, log, response>>

NextStream ==
    \/ ReadChunk
    \/ WriteChunk
    \/ SeekStart
    \/ FinalizeGenerator

SpecStream == InitStream /\ [][NextStream]_vars

(***************************************************************************)
(* Staging.  Calls of save_uploaded_file and save_uploaded_file_async on   *)
(* one raw name, one after the other: task holds the calls, uploads the    *)
(* names of the files in the uploads directory and outputs the files       *)
(* created anywhere else, as pairs of a directory and a name.              *)
(***************************************************************************)
MaxStagings == 2

StageStems ==
    { <<>>, <<"a">>, <<"c", "o", "n">>, <<".", ".">>,
      <<"a", "<", "b", "|", "\t">> }

StageExts == { <<>>, <<".", "t", "x", "t">>, <<".", "a", ".", "b">> }

StageNames == {d \o n \o e : d \in RawDirs, n \in StageStems, e \in StageExts}

\* self.uploads_dir / name: the parts of the joined path.  A name with a
\* root or a drive replaces the uploads directory; otherwise its components
\* are appended, "." and empty ones dropped, ".." kept
JoinUploads(os_, name) ==
    LET drive == DriveLen(os_, name)
        rest  == Slice(name, drive + 1, Len(name))
        comps == SelectSeq(SplitPath(os_, rest),
                           LAMBDA c : c # <<>> /\ c # <<".">>)
        root  == IF IsAbsolute(os_, name) THEN Outside
                 ELSE IF drive > 0 THEN <<>>
                 ELSE UploadsDir
    IN  root \o comps

\* a joined path as the pair of its parent and its name
AsPath(parts) ==
    IF parts = <<>> THEN << <<>>, <<>> >>
    ELSE <<Slice(parts, 1, Len(parts) - 1), parts[Len(parts)]>>

\* file_path.exists(): a file created before, a directory known to exist,
\* the root or ".."
JoinedExists(parts, fileset, dirset) ==
    \/ parts = <<>>
    \/ parts = Outside
    \/ parts \in dirset
    \/ parts[Len(parts)] = <<".", ".">>
    \/ AsPath(parts) \in fileset

\* lines 54-62 and 259-267: the first of safe_filename, stem_1.ext,
\* stem_2.ext, ... whose join with the uploads directory does not exist
RECURSIVE FreeStagePath(_, _, _, _, _)
FreeStagePath(os_, safe_filename, counter, fileset, dirset) ==
    LET name  == IF counter = 0 THEN safe_filename
                 ELSE NumberedName(PathStem(os_, safe_filename), counter,
                                   PathSuffix(os_, safe_filename))
        parts == JoinUploads(os_, name)
    IN  IF JoinedExists(parts, fileset, dirset)
        THEN FreeStagePath(os_, safe_filename, counter + 1, fileset, dirset)
        ELSE AsPath(parts)

StageCall(op, filename, safe_filename, file_path, exc) ==
    [pc |-> op, filename |-> filename, safe_filename |-> safe_filename,
     file_path |-> file_path, exc |-> exc]

InitStage ==
    /\ os \in OsNames
    /\ files \in {<<UploadFile(x, NoSize)>> : x \in StageNames}
    /\ output_dir = <<>>
    /\ phase = "stage"
    /\ permits = 0
    /\ task = <<>>
    /\ uploads = {}
    /\ outputs = {}
    /\ dirs = {UploadsDir, DefaultOutputDir}
    /\ log = {}
    /\ response = NoResponse

\* what a call does to the file system: the open creates the file unless
\* it raises, a failing write leaves it
Staged(op, outcome) ==
    /\ Len(task) < MaxStagings
    /\ \E safe_filename \in {SanitizeFilename(os, files[1].filename)} :
       \E file_path \in {FreeStagePath(os, safe_filename, 0,
                                       {<<UploadsDir, n>> : n \in uploads}
                                           \cup outputs,
                                       dirs)} :
       \E created \in {outcome # "open: OSError"} :
          /\ task' = Append(task,
                 StageCall(op, files[1].filename, safe_filename, file_path,
                           IF outcome = "ok" THEN "None" ELSE "OSError"))
          /\ uploads' = IF created /\ file_path[1] = UploadsDir
                        THEN uploads \cup {file_path[2]} ELSE uploads
          /\ outputs' = IF created /\ file_path[1] # UploadsDir
                        THEN outputs \cup {file_path} ELSE outputs
    /\ UNCHANGED <<os, files, output_dir, phase, permits, dirs, log, response>>

\* FileHandler.save_uploaded_file(file_content, filename), lines 41-72
SaveUploadedFile ==
    /\ phase = "stage"
    /\ \E outcome \in SaveOutcomes : Staged("save_uploaded_file", outcome)

\* FileHandler.save_uploaded_file_async(file, filename), lines 246-280
SaveUploadedFileAsync ==
    /\ phase = "stage"
    /\ \E outcome \in SaveOutcomes : Staged("save_uploaded_file_async", outcome)

NextStage ==
    \/ SaveUploadedFile
    \/ SaveUploadedFileAsync

SpecStage == InitStage /\ [][NextStage]_vars

(***************************************************************************)
(* The request under fair scheduling.  The event loop runs every task that *)
(* is ready, and each await of a worker (a file operation, the executor    *)
(* call) completes: a worker that can take a slot eventually takes one, a  *)
(* step of a worker past that point that stays possible is eventually      *)
(* taken, and so is the return of upload_files once gather has every       *)
(* result.  Nothing obliges the client to stay or to go: CancelBatch has   *)
(* no fairness.                                                            *)
(***************************************************************************)
StartStep == \E i \in Tasks : Start(i)

\* when StartStep is possible: a slot is free and a worker waits for one
CanStart ==
    /\ phase = "gather"
    /\ permits > 0
    /\ \E i \in Tasks : task[i].pc = "pending"

LaterStep ==
    \E i \in Tasks :
        \/ StageExists(i)
        \/ StageOpen(i)
        \/ StageWrite(i)
        \/ Convert(i)
        \/ CleanupExists(i)
        \/ CleanupRecheck(i)
        \/ CleanupRemove(i)

\* the last conjunct is the weak fairness of StartStep, with the condition
\* under which StartStep is possible written out
SpecLive ==
    /\ Init /\ [][Next]_vars
    /\ WF_vars(LaterStep)
    /\ WF_vars(Return)
    /\ ([]<>~CanStart \/ []<><<StartStep>>_vars)

(***************************************************************************)
(* Claims                                                                  *)
(***************************************************************************)
Results == response.results

EndsWith(s, suffix) ==
    Len(s) >= Len(suffix) /\ Slice(s, Len(s) - Len(suffix) + 1, Len(s)) = suffix

\* the errors the except clauses give to an I/O failure of the staging
IOErrors == {"TempFileDeleted", "PermissionError", "SystemError"}

\* C1: a batch of one file with a valid name, a supported extension with an
\* allowed MIME type, non-empty content and a valid output directory, staged
\* without an I/O error, is answered with one FileResult that has
\* success=true, no error and an output_path ending in ".md" that exists.
C1_SingleValidFileSucceeds ==
    ( /\ phase = "returned"
      /\ N = 1
      /\ ValidateFile(os, files[1]) = "ok"
      /\ files[1].size >= min_file_size
      /\ TargetDir(os, output_dir) # Outside
      /\ Results[1].error \notin IOErrors )
    => /\ Len(Results) = 1
       /\ Results[1].success
       /\ Results[1].error = "None"
       /\ \E p \in Results[1].output_path : EndsWith(p[2], md) /\ p \in outputs

\* C2: the response of an accepted batch of N files has N results, result i
\* is the dict task i returned for file i, total_files = N, and successful
\* and failed count the results by their success and add up to N.
C2_ResultsMatchBatch ==
    phase = "returned" =>
        /\ 1 <= N /\ N <= max_files_count
        /\ Len(Results) = N
        /\ \A i \in Tasks :
              /\ Results[i] \in task[i].result
              /\ Results[i].filename
                    = DisplayName(files[i], ValidateFile(os, files[i]))
        /\ response.total_files = N
        /\ response.successful
              = Cardinality({i \in 1..Len(Results) : Results[i].success})
        /\ response.successful + response.failed = N

\* three files answered in the order of the request, the second one rejected
\* by a check while the first went through the pipeline
C2_Witness ==
    /\ phase = "returned"
    /\ N = 3
    /\ Results[1].error = "Unexpected"
    /\ Results[2].error = "UnsupportedFormat"
    /\ Results[3].error = "PermissionError"

\* C3: every FileResult has, with success=true, an output_path and no error,
\* and with success=false an error and no output_path.
WellFormed(r) ==
    /\ r.success => (r.output_path # {} /\ r.error = "None")
    /\ ~r.success => (r.error # "None" /\ r.output_path = {})

C3_ResultShape ==
    /\ \A i \in Tasks : \A r \in task[i].result : WellFormed(r)
    /\ \A k \in 1..Len(Results) : WellFormed(Results[k])

\* a response with a result of each origin: a failed check, an I/O error of
\* the staging, and the except clause after the body of the scope
C3_Witness ==
    /\ phase = "returned"
    /\ \E i, j, k \in 1..Len(Results) :
          /\ Results[i].error = "MimeMismatch" \/ Results[i].error = "UnsupportedFormat"
          /\ Results[j].error = "SystemError"
          /\ Results[k].error = "Unexpected" /\ task[k].exc = "TypeError"

\* C4: at every moment at most min(max_concurrent_files, N) tasks hold a
\* slot, and so at most that many conversions are in flight.
C4_ConcurrencyBound ==
    /\ Cardinality({i \in Tasks : Holding(i)}) <= Min(max_concurrent_files, N)
    /\ Cardinality({i \in Tasks : task[i].pc = "convert"})
          <= Min(max_concurrent_files, N)

\* every slot is taken by a conversion in flight while a third file waits
C4_Witness ==
    /\ N > max_concurrent_files
    /\ Cardinality({i \in Tasks : task[i].pc = "convert"}) = max_concurrent_files
    /\ \E i \in Tasks : task[i].pc = "pending"

\* C5: when a task that staged its file leaves the scope of the staged file
\* (the body returned or raised, or the task was cancelled), the staged file
\* no longer exists in the uploads directory, unless the deletion failed and
\* a warning was logged.
C5_StagedFileGoneAfterScope ==
    [][\A i \in Tasks :
          (task[i].temp_path # {} /\ Holding(i) /\ task'[i].pc \notin InPipeline)
          => (TempLeaf(i) \notin uploads' \/ Warning(i) \in log')]_vars

\* C6: two tasks in flight never hold the same staged path.
HasStaged(i) ==
    task[i].pc \in {"stage_write", "convert", "cleanup_exists",
                    "cleanup_recheck", "cleanup_remove"}

C6_StagedPathsDistinct ==
    \A i, j \in Tasks :
        (i # j /\ HasStaged(i) /\ HasStaged(j))
        => task[i].file_path # task[j].file_path

PathExists(dir, leaf) ==
    \/ dir = UploadsDir /\ leaf \in uploads
    \/ <<dir, leaf>> \in outputs
    \/ Append(dir, leaf) \in dirs

SmallestFree(dir, stem, ext) ==
    IF ~PathExists(dir, stem \o ext) THEN stem \o ext
    ELSE LET Free(k) == ~PathExists(dir, NumberedName(stem, k, ext))
             k == CHOOSE n \in 1..(Cardinality(outputs) + Cardinality(dirs)
                                     + Cardinality(uploads) + 1) :
                      Free(n) /\ \A j \in 1..(n - 1) : ~Free(j)
         IN  NumberedName(stem, k, ext)

CandidateStem(call) ==
    IF call.pc = "create_output_path" THEN PathStem(os, call.filename)
    ELSE PathStem(os, SanitizeFilename(os, call.filename))

CandidateExt(call) ==
    IF call.pc = "create_output_path" THEN md
    ELSE PathSuffix(os, SanitizeFilename(os, call.filename))

C8_Resolved(call) ==
    /\ call.path[2] = SmallestFree(call.path[1], CandidateStem(call),
                                   CandidateExt(call))
    /\ ~PathExists(call.path[1], call.path[2])
    /\ call.pc = "create_output_path" => EndsWith(call.path[2], md)
    /\ ( /\ task # <<>>
         /\ task[Len(task)].pc = "create_output_path"
         /\ call.pc = "create_output_path"
         /\ task[Len(task)].filename = call.filename
         /\ task[Len(task)].output_dir = call.output_dir
         /\ task[Len(task)].path[2] = CandidateStem(call) \o md
         /\ task[Len(task)].path \in outputs
         /\ ~PathExists(call.path[1], NumberedName(CandidateStem(call), 1, md)) )
       => call.path[2] = NumberedName(CandidateStem(call), 1, md)

C8_CollisionSafeNaming ==
    [][Len(task') = Len(task) + 1 => C8_Resolved(task'[Len(task')])]_vars

\* the same name resolved three times, each file created before the next
\* call: name.md, then name_1.md, then name_2.md
C8_Witness ==
    /\ phase = "naming"
    /\ Len(task) = 3
    /\ \A k \in 1..3 : /\ task[k].pc = "create_output_path"
                       /\ task[k].filename = a_txt
                       /\ task[k].output_dir = <<"o", "u", "t">>
    /\ task[1].path[2] = a_md
    /\ task[2].path[2] = a_1_md
    /\ task[3].path[2] = a_2_md
    /\ task[1].path \in outputs /\ task[2].path \in outputs

\* C9: a file's failure stays its own.  Every step of a worker changes its
\* own task only; a finished task holds the result that its own file, the
\* output directory of the request and its own exception give; every slot
\* taken is given back, so a waiting sibling can start; and once a file has
\* been worked on, the request is never answered with a batch-level error.
OwnResult(i) ==
    LET v == ValidateFile(os, files[i])
    IN  IF v # "ok" THEN FileResult(DisplayName(files[i], v), FALSE, v, {})
        ELSE IF TargetDir(os, output_dir) = Outside
        THEN FileResult(files[i].filename, FALSE, "OutputDirError", {})
        ELSE FileResult(files[i].filename, FALSE,
                        CASE task[i].exc = "FileNotFoundError" -> "TempFileDeleted"
                          [] task[i].exc = "PermissionError" -> "PermissionError"
                          [] task[i].exc = "OSError" -> "SystemError"
                          [] OTHER -> "Unexpected",
                        {})

C9_Isolated ==
    /\ \A i \in Tasks : task[i].pc = "done" => task[i].result = {OwnResult(i)}
    /\ phase = "gather" =>
          /\ permits + Cardinality({i \in Tasks : Holding(i)})
                = Min(max_concurrent_files, N)
          /\ (\E i \in Tasks : task[i].pc = "pending") =>
                (permits > 0 \/ \E j \in Tasks : Holding(j))
    /\ (\E i \in Tasks : task[i].pc # "pending") => response.status \in {0, 200}
    /\ phase = "returned" =>
          /\ response.status = 200
          /\ \A i \in Tasks : Results[i] = OwnResult(i)

C9_OwnTaskOnly ==
    (phase' # "cancelled")
    => Cardinality({i \in Tasks : task'[i] # task[i]}) <= 1

C9_FailureIsolation == []C9_Isolated /\ [][C9_OwnTaskOnly]_vars

\* the first two files fail while staging, each with its own error, and the
\* third, which waited for a slot, is worked on and answered all the same
C9_Witness ==
    /\ phase = "returned"
    /\ N = 3
    /\ Results[1].error = "TempFileDeleted"
    /\ Results[2].error = "SystemError"
    /\ Results[3].error = "Unexpected"
    /\ task[3].exc = "TypeError"

\* C10: a batch that is empty, has too many files, names an invalid output
\* directory, declares a file over the per-file maximum or declares more
\* than the total maximum is rejected with nothing done: no task has
\* started, nothing is staged, no directory and no output file is created,
\* and the answer carries no results.
DeclaredSizes == {i \in Tasks : files[i].size # NoSize}

RECURSIVE SumSizes(_)
SumSizes(I) ==
    IF I = {} THEN 0
    ELSE LET i == CHOOSE i \in I : TRUE IN files[i].size + SumSizes(I \ {i})

InvalidOutputDir ==
    /\ output_dir # <<>>
    /\ \/ Len(output_dir) > max_output_dir_length
       \/ \E k \in 1..Len(forbidden_output_dir_patterns) :
             Contains(output_dir, forbidden_output_dir_patterns[k])
       \/ WsLStrip(output_dir) # <<>> /\ Head(WsLStrip(output_dir)) = "."

Rejectable ==
    \/ N = 0
    \/ N > max_files_count
    \/ InvalidOutputDir
    \/ \E i \in DeclaredSizes : files[i].size > max_file_size
    \/ SumSizes(DeclaredSizes) > max_total_size

C10_RejectionDoesNothing ==
    (Rejectable \/ phase = "rejected") =>
        /\ phase \in {"received", "rejected"}
        /\ \A i \in Tasks : task[i] = FreshTask
        /\ uploads = {}
        /\ outputs = {<<DefaultOutputDir, a_md>>}
        /\ dirs = {UploadsDir, DefaultOutputDir}
        /\ log = {}
        /\ Results = <<>>
        /\ phase = "rejected" => (Rejectable /\ response.status \in {400, 413})

\* a batch of one file more than max_files_count has been rejected
C10_Witness ==
    /\ phase = "rejected"
    /\ N = max_files_count + 1
    /\ response.detail = "TooManyFiles"
    /\ \A i \in Tasks : ValidateFile(os, files[i]) = "ok"

\* C11: the checks on the batch run in the order no files, too many files,
\* output directory (length, forbidden pattern, leading dot), sizes (a file
\* over the maximum, then the total), and the rejection reported is that of
\* the first check the batch violates; a batch is accepted exactly when it
\* violates none.
BatchChecks ==
    << <<"NoFiles", N = 0>>,
       <<"TooManyFiles", N > max_files_count>>,
       <<"OutputDirTooLong",
         output_dir # <<>> /\ Len(output_dir) > max_output_dir_length>>,
       <<"ForbiddenPattern",
         output_dir # <<>>
         /\ \E k \in 1..Len(forbidden_output_dir_patterns) :
               Contains(output_dir, forbidden_output_dir_patterns[k])>>,
       <<"StartsWithDot",
         output_dir # <<>> /\ WsLStrip(output_dir) # <<>>
         /\ Head(WsLStrip(output_dir)) = ".">>,
       <<"FileTooLarge", \E i \in DeclaredSizes : files[i].size > max_file_size>>,
       <<"TotalTooLarge", SumSizes(DeclaredSizes) > max_total_size>> >>

Violated == {k \in 1..Len(BatchChecks) : BatchChecks[k][2]}

FirstViolated ==
    IF Violated = {} THEN "None"
    ELSE BatchChecks[CHOOSE k \in Violated : \A j \in Violated : k <= j][1]

C11_FirstViolatedCheckReported ==
    phase # "received" =>
        /\ (phase = "rejected") <=> (FirstViolated # "None")
        /\ phase = "rejected" => response.detail = FirstViolated
        /\ phase # "rejected" => response.detail = "None"

\* a batch that violates the count, the three checks of the output
\* directory and the size of a file is rejected for the count
C11_Witness ==
    /\ phase = "rejected"
    /\ Cardinality(Violated) >= 5
    /\ response.detail = "TooManyFiles"
    /\ response.status = 400

\* C12: sanitisation is idempotent: sanitizing a sanitized name returns it
\* unchanged, for truncated names, prefixed names and the fallback name too.
C12_SanitizeIdempotent ==
    phase = "sanitize" =>
        \A k \in 1..Len(task) : k > 1 => task[k].path = task[k].filename

\* C13: every sanitized name is non-empty and holds none of the characters
\* < > : " | ? *, no path separator (/ or \) and no control character.
Unwanted ==
    {"<", ">", ":", "\"", "|", "?", "*", "/", "\\", "NUL", "\t", "\n", "\r", "DEL"}

C13_SanitizedIsClean ==
    phase = "sanitize" =>
        \A k \in 1..Len(task) :
            /\ task[k].path # <<>>
            /\ \A i \in 1..Len(task[k].path) : task[k].path[i] \notin Unwanted

\* a name with a backslash, a "<", a "|" and a tab has been sanitized on a
\* host where the backslash is no separator
C13_Witness ==
    /\ phase = "sanitize"
    /\ os = "posix"
    /\ task # <<>>
    /\ task[1].filename = <<"d", "\\", "a", "<", "b", "|", "\t">>
    /\ task[1].path = <<"d", "_", "a", "_", "b", "_">>

\* C14: a name whose stem, after directory stripping, replacement, control
\* removal and trimming, is a reserved device name in any letter case, with
\* or without extension, is returned with the prefix "file_"; and no
\* sanitized name has a reserved device name as its stem.
Cleaned(call) ==
    Strip(RemoveControl(ReplaceDangerous(Basename(os, call.filename))))

StartsWith(s, prefix) ==
    Len(s) >= Len(prefix) /\ Slice(s, 1, Len(prefix)) = prefix

C14_ReservedStemPrefixed ==
    phase = "sanitize" =>
        \A k \in 1..Len(task) :
            /\ Upper(PathStem(os, Cleaned(task[k]))) \in reserved_names
                  => StartsWith(task[k].path, <<"f", "i", "l", "e", "_">>)
            /\ Upper(PathStem(os, task[k].path)) \notin reserved_names

\* " con.txt", reserved only once the space is trimmed, came back prefixed
C14_Witness ==
    /\ phase = "sanitize"
    /\ task # <<>>
    /\ task[1].filename = <<" ", "c", "o", "n", ".", "t", "x", "t">>
    /\ task[1].path = <<"f", "i", "l", "e", "_", "c", "o", "n", ".", "t", "x", "t">>

\* C15: a raw name with directory components separated by "/" or "\" is
\* sanitized to what the part after its last separator is sanitized to.
LastSeparator(x) == LastIndex(x, LAMBDA c : c \in {"/", "\\"})

C15_LeafOnly ==
    (phase = "sanitize" /\ task # <<>>) =>
        LET x == task[1].filename
            i == LastSeparator(x)
        IN  i > 0 => task[1].path = SanitizeFilename(os, Slice(x, i + 1, Len(x)))

\* C16: a sanitized name has at most 255 characters, and the extension of
\* the name is kept whole when the name is shortened.
C16_LengthBounded ==
    phase = "sanitize" =>
        \A k \in 1..Len(task) :
            /\ Len(task[k].path) <= SanitizeMaxLen
            /\ task[k].path # unnamed_file
                  => EndsWith(task[k].path, PathSuffix(os, Cleaned(task[k])))

\* C17: for a requested output directory that contains "..", an absolute
\* path marker (a leading "/" or "\") or a drive separator (":"), the
\* resolver fails with the error "Output directory outside allowed path"
\* and returns no path.
Dangerous(dir) ==
    \/ Contains(dir, <<".", ".">>)
    \/ dir # <<>> /\ Head(dir) \in {"/", "\\"}
    \/ Contains(dir, <<":">>)

C17_DangerousDirRefused ==
    (phase = "resolve" /\ task # <<>> /\ Dangerous(output_dir)) =>
        /\ task[1].exc = "ValueError"
        /\ task[1].path = {}

\* C18: a path returned by the resolver lies directly inside a directory
\* equal to or below the allowed root (the working directory when a
\* directory is requested, the default output directory otherwise); a call
\* whose directory resolves outside fails and creates nothing.
IsPrefix(a, b) == Len(a) <= Len(b) /\ Slice(b, 1, Len(a)) = a

AllowedRoot == IF output_dir # <<>> THEN <<>> ELSE DefaultOutputDir

C18_Inside(p) ==
    /\ p[1] # Outside
    /\ IsPrefix(AllowedRoot, p[1])
    /\ \A k \in 1..Len(p[1]) : p[1][k] \notin {<<>>, <<".">>, <<".", ".">>}
    /\ \A k \in 1..Len(p[2]) : ~IsSep(os, p[2][k])

C18_ReturnedPathInsideRoot ==
    (phase = "resolve" /\ task # <<>>) =>
        /\ \A p \in task[1].path : C18_Inside(p)
        /\ task[1].exc = "ValueError" =>
              /\ task[1].path = {}
              /\ dirs = {UploadsDir, DefaultOutputDir}
              /\ outputs \subseteq {<<DefaultOutputDir, a_md>>}

\* C19: when the engine raises while converting a file, the conversion
\* result is success=false with no content and the engine's message as its
\* error, no output file is written, and the FileResult of the file is a
\* failure that carries that message.
C19_EngineFailureReported ==
    (phase = "converter" /\ task # <<>>) =>
        \A e \in task[1].engine :
            e.kind = "raises" =>
                /\ task[1].result.success = FALSE
                /\ task[1].result.content = {}
                /\ task[1].result.error = e.message
                /\ OutputPath \notin outputs
                /\ \A j \in 1..Len(response.results) :
                      /\ response.results[j].success = FALSE
                      /\ response.results[j].error = e.message

\* C20: when the engine returns without raising but gives no text (no
\* result, no text attribute, a null text or the empty string), the
\* conversion is a failure with an error, and no output file is written.
NoText(e) ==
    \/ e.kind \in {"None", "no_attribute"}
    \/ e.kind = "result" /\ e.text \subseteq {<<>>}

C20_EmptyResultIsFailure ==
    (phase = "converter" /\ task # <<>>) =>
        \A e \in task[1].engine :
            NoText(e) =>
                /\ task[1].result.success = FALSE
                /\ task[1].result.error # "None"
                /\ OutputPath \notin outputs

\* C21: a file whose size is not declared has its true size checked while
\* it is staged: when its stream holds more bytes than the maximum for a
\* file, or fewer than the minimum, the file is never handed to the
\* conversion and its FileResult is a failure.
WrongLength(i) ==
    /\ files[i].size = NoSize
    /\ files[i].length > max_file_size \/ files[i].length < min_file_size

C21_UndeclaredSizeChecked ==
    \A i \in Tasks :
        (phase \in {"gather", "returned"} /\ WrongLength(i)) =>
            /\ task[i].pc # "convert"
            /\ \A r \in task[i].result : ~r.success

\* C22: each file of an accepted batch is attempted once: its task moves
\* forward only through the steps (checks, staging, conversion, cleanup),
\* the staged file is opened and the conversion is called at most once,
\* and the task ends in one terminal state, with one result, that it never
\* leaves.
StepRank(pc) ==
    CASE pc = "pending" -> 0
      [] pc = "stage_exists" -> 1
      [] pc = "stage_open" -> 2
      [] pc = "stage_write" -> 3
      [] pc = "convert" -> 4
      [] pc = "cleanup_exists" -> 5
      [] pc = "cleanup_recheck" -> 6
      [] pc = "cleanup_remove" -> 7
      [] OTHER -> 8

Terminal == {"done", "cancelled", "raised"}

C22_OneTerminal ==
    \A i \in Tasks :
        /\ task[i].pc = "done" => Cardinality(task[i].result) = 1
        /\ task[i].pc = "cancelled" => task[i].result = {}
        /\ StepRank(task[i].pc) <= StepRank("convert") => task[i].result = {}

C22_Forward ==
    \A i \in Tasks :
        /\ StepRank(task'[i].pc) >= StepRank(task[i].pc)
        /\ task[i].pc \in Terminal => task'[i] = task[i]
        /\ (task'[i] # task[i] /\ task[i].pc # "stage_exists")
              => StepRank(task'[i].pc) > StepRank(task[i].pc)

C22_AttemptedOnce == []C22_OneTerminal /\ [][C22_Forward]_vars

\* a batch of two returned after one file went through staging, the
\* conversion call and the cleanup, and the other failed while it was staged
C22_Witness ==
    /\ phase = "returned"
    /\ N = 2
    /\ task[1].pc = "done" /\ task[1].exc = "TypeError"
    /\ task[2].pc = "done" /\ task[2].exc = "OSError"

\* C23: a worker that staged a file gives its slot back only after the
\* cleanup of the staged file (its deletion, or the failed attempt that is
\* logged), on every outcome, the cancellation of the batch included; so no
\* slot is free for another file while a staged file awaits its cleanup.
GivesSlotBack(i) == Holding(i) /\ task'[i].pc \notin InPipeline

AwaitsCleanup(i) ==
    /\ Holding(i)
    /\ task[i].temp_path # {}
    /\ TempLeaf(i) \in uploads

C23_CleanupBeforeSlot ==
    [][\A i \in Tasks :
          (AwaitsCleanup(i) /\ GivesSlotBack(i) /\ permits' > permits)
          => (TempLeaf(i) \notin uploads' \/ Warning(i) \in log' \ log)]_vars

\* C24: for a worker that fails with an uncategorized exception, the error
\* text of its FileResult is one fixed generic text: two runs that differ
\* only in the message of the exception answer the caller alike.
Categorized == {"FileNotFoundError", "PermissionError", "OSError"}

C25_StreamRewoundOnce ==
    (phase = "stream" /\ task[1].pc \in {"returned", "raised"})
        => (task[1].offset = 0 /\ task[1].seeks = 1)

\* C26: the checks on a file run in the order no filename, filename too
\* long, forbidden character, declared size under the minimum, unsupported
\* extension, MIME mismatch, output directory; the error of the file is that
\* of the first check it fails, a file that fails one takes no slot and is
\* never staged nor converted, and the batch returns 200 all the same.
FileChecks(i) ==
    << <<"NoFilename", Len(files[i].filename) = 0>>,
       <<"FilenameTooLong", Len(files[i].filename) > max_filename_length>>,
       <<"ForbiddenChars",
         \E k \in 1..Len(forbidden_filename_patterns) :
            Contains(files[i].filename, forbidden_filename_patterns[k])>>,
       <<"EmptyFile",
         files[i].size # NoSize /\ files[i].size < min_file_size>>,
       <<"UnsupportedFormat", ~is_supported_format(os, files[i].filename)>>,
       <<"MimeMismatch", ~validate_mime_type(os, files[i].filename)>>,
       <<"OutputDirError", TargetDir(os, output_dir) = Outside>> >>

FailedChecks(i) == {k \in 1..Len(FileChecks(i)) : FileChecks(i)[k][2]}

FirstFailed(i) ==
    FileChecks(i)[CHOOSE k \in FailedChecks(i) :
                      \A j \in FailedChecks(i) : k <= j][1]

C26_Rejected(i) ==
    /\ task'[i].pc = "done"
    /\ \E r \in task'[i].result : r.success = FALSE /\ r.error = FirstFailed(i)
    /\ Cardinality(task'[i].result) = 1
    /\ permits' = permits
    /\ uploads' = uploads
    /\ outputs' = outputs

C26_Step ==
    \A i \in Tasks :
        (task[i].pc = "pending" /\ task'[i].pc # "pending"
         /\ phase' # "cancelled") =>
            IF FailedChecks(i) # {} THEN C26_Rejected(i)
            ELSE task'[i].pc = "stage_exists"

C26_Returned ==
    (phase = "returned" /\ \E i \in Tasks : FailedChecks(i) # {})
        => response.status = 200

C27_Step ==
    \A i \in Tasks :
        (task[i].pc = "stage_write" /\ task'[i].pc = "done") =>
            /\ \E r \in task'[i].result : r.success = FALSE
            /\ phase' = "gather"
            /\ task[i].file_path \notin uploads'

C27_NoPartialStagedFile == [][C27_Step]_vars

\* C28: whenever convert_to_file returns success=false, because the
\* conversion failed or because saving the output failed, no file exists at
\* the output path (none existed before the call), and the result has an
\* error and no output_path.
C28_FailureLeavesNoOutput ==
    (phase = "converter" /\ task # <<>> /\ task[1].result.success = FALSE) =>
        /\ OutputPath \notin outputs
        /\ task[1].result.error # "None"
        /\ task[1].result.output_path = {}

\* C29: for every uploaded filename (directory components, ".." segments,
\* separators, reserved names) the staged path is directly inside the
\* uploads directory: its parent is the uploads directory, its name is the
\* sanitized name or that name with "_k" before the extension, and no file
\* is ever created outside the uploads directory.
C29_Numbered(name, safe) ==
    \E k \in 1..MaxStagings, j \in 0..Len(safe) :
        /\ j = Len(safe) \/ safe[j + 1] = "."
        /\ name = Slice(safe, 1, j) \o <<"_">> \o Decimal(k)
                  \o Slice(safe, j + 1, Len(safe))

C29_Leaf(name) ==
    /\ name \notin {<<>>, <<".">>, <<".", ".">>}
    /\ \A k \in 1..Len(name) : name[k] \notin {"/", "\\", ":"}

C29_StagedInsideUploads ==
    phase = "stage" =>
        /\ outputs = {}
        /\ \A c \in 1..Len(task) :
              /\ task[c].file_path[1] = UploadsDir
              /\ C29_Leaf(task[c].file_path[2])
              /\ \/ task[c].file_path[2] = task[c].safe_filename
                 \/ C29_Numbered(task[c].file_path[2], task[c].safe_filename)
              /\ task[c].exc = "None" => task[c].file_path[2] \in uploads

\* "../../con.a.b" staged twice: the second file is file_con.a_1.b, beside
\* the first in the uploads directory
C29_Witness ==
    /\ phase = "stage"
    /\ Len(task) = 2
    /\ Contains(task[1].filename, <<".", ".", "/">>)
    /\ Contains(task[1].filename, <<"c", "o", "n">>)
    /\ task[1].exc = "None"
    /\ task[2].exc = "None"
    /\ task[2].file_path[2] # task[2].safe_filename
    /\ {task[1].file_path[2], task[2].file_path[2]} \subseteq uploads

\* C30: under fair scheduling, with every engine call and file operation
\* completing, an accepted batch eventually returns its result (unless the
\* request is cancelled); it returns only when every file has its terminal
\* result, and then every slot of the semaphore is free again: no failure
\* path keeps a slot and no worker waits for one forever.
C30_Slots == IF N < max_concurrent_files THEN N ELSE max_concurrent_files

C30_Returned ==
    phase = "returned" =>
        /\ \A i \in Tasks : task[i].pc = "done" /\ Cardinality(task[i].result) = 1
        /\ Len(response.results) = N
        /\ permits = C30_Slots

C30_Held ==
    phase = "gather" =>
        permits + Cardinality({i \in Tasks : Holding(i)}) = C30_Slots

C30_BatchReturns ==
    /\ []C30_Returned
    /\ []C30_Held
    /\ (phase = "gather") ~> (phase \in {"returned", "cancelled"})

\* a batch of more files than slots has returned, one of its files having
\* failed while it held a slot, and every slot is free
C30_Witness ==
    /\ phase = "returned"
    /\ N > max_concurrent_files
    /\ permits = max_concurrent_files
    /\ \E i \in Tasks : task[i].exc \in {"OSError", "PermissionError"}
    /\ \E i \in Tasks : task[i].exc = "TypeError"

=============================================================================
